---- MODULE Spec2Model ----
(***************************************************************************)
(* Heston Monte Carlo engine: heston.simulate(settings), statement by      *)
(* statement.  Floating-point numbers are fixed-point integers with Scale  *)
(* units per 1.0, every product, quotient and square root rounded to the   *)
(* nearest unit, together with the IEEE special values nan and +/-inf and  *)
(* the arbitrary content of an np.empty cell.                              *)
(***************************************************************************)
EXTENDS Integers, Sequences, FiniteSets, TLC

\* ------------------------------------------------------------------ bounds
Scale == 1000          \* fixed-point units per 1.0
MaxPaths == 2          \* largest m drawn
MaxSteps == 3          \* largest n drawn
MaxCells == 4          \* largest m * n drawn
ExpTerms == 6          \* terms of the series used for np.exp

\* --------------------------------------------------------------- numerics
Num(i) == [k |-> "num", x |-> i]
NaN == [k |-> "nan", x |-> 0]
Inf(sg) == [k |-> "inf", x |-> sg]
Uninit == [k |-> "uninit", x |-> 0]

Abs(i) == IF i < 0 THEN -i ELSE i
Sign(i) == IF i > 0 THEN 1 ELSE IF i < 0 THEN -1 ELSE 0

\* p / q for q > 0, rounded to the nearest integer, ties away from zero
RoundDiv(p, q) == Sign(p) * ((2 * Abs(p) + q) \div (2 * q))

\* a decimal literal of the source, given in thousandths
Dec(th) == RoundDiv(th * Scale, 1000)

IsNum(a) == a.k = "num"
AnyIs(a, b, kind) == a.k = kind \/ b.k = kind

FNeg(a) == IF a.k \in {"num", "inf"} THEN [a EXCEPT !.x = -a.x] ELSE a

FAdd(a, b) ==
    IF AnyIs(a, b, "uninit") THEN Uninit
    ELSE IF AnyIs(a, b, "nan") THEN NaN
    ELSE IF a.k = "inf" /\ b.k = "inf" THEN (IF a.x = b.x THEN a ELSE NaN)
    ELSE IF a.k = "inf" THEN a
    ELSE IF b.k = "inf" THEN b
    ELSE Num(a.x + b.x)

FSub(a, b) == FAdd(a, FNeg(b))

FMul(a, b) ==
    IF AnyIs(a, b, "uninit") THEN Uninit
    ELSE IF AnyIs(a, b, "nan") THEN NaN
    ELSE IF AnyIs(a, b, "inf")
         THEN (IF Sign(a.x) * Sign(b.x) = 0 THEN NaN ELSE Inf(Sign(a.x) * Sign(b.x)))
    ELSE Num(RoundDiv(a.x * b.x, Scale))

\* float / int, as numpy divides: a zero divisor gives inf or nan
FDivInt(a, d) ==
    IF a.k \in {"uninit", "nan"} THEN a
    ELSE IF d = 0 THEN (IF Sign(a.x) = 0 THEN NaN ELSE Inf(Sign(a.x)))
    ELSE IF a.k = "inf" THEN Inf(Sign(a.x) * Sign(d))
    ELSE Num(Sign(d) * RoundDiv(a.x, Abs(d)))

RECURSIVE ISqrtBetween(_, _, _)
\* the largest root in lo..hi whose square is at most x (lo * lo <= x)
ISqrtBetween(x, lo, hi) ==
    IF lo >= hi THEN lo
    ELSE LET mid == (lo + hi + 1) \div 2
         IN  IF mid * mid <= x THEN ISqrtBetween(x, mid, hi)
             ELSE ISqrtBetween(x, lo, mid - 1)

\* integer square root of x >= 0, rounded to the nearest integer
ISqrt(x) ==
    LET fl == ISqrtBetween(x, 0, IF x < 46340 THEN x ELSE 46340)
    IN  IF x - fl * fl > fl THEN fl + 1 ELSE fl

\* np.sqrt: nan for a negative argument
FSqrt(a) ==
    IF a.k \in {"uninit", "nan"} THEN a
    ELSE IF a.k = "inf" THEN (IF a.x > 0 THEN a ELSE NaN)
    ELSE IF a.x < 0 THEN NaN
    ELSE Num(ISqrt(a.x * Scale))

\* np.clip(a, a_min=lo, a_max=None), elementwise maximum; nan stays nan
ClipMin(a, lo) ==
    IF a.k \in {"uninit", "nan"} THEN a
    ELSE IF a.k = "inf" THEN (IF a.x > 0 THEN a ELSE Num(lo))
    ELSE IF a.x < lo THEN Num(lo) ELSE a


\* np.exp by its power series, ExpTerms terms after the leading 1
RECURSIVE ExpSeries(_, _, _, _)
ExpSeries(x, j, term, acc) ==
    IF j > ExpTerms THEN acc
    ELSE LET nt == RoundDiv(term * x, Scale * j)
         IN  ExpSeries(x, j + 1, nt, acc + nt)

FExp(a) ==
    IF a.k \in {"uninit", "nan"} THEN a
    ELSE IF a.k = "inf" THEN (IF a.x > 0 THEN a ELSE Num(0))
    ELSE Num(ExpSeries(a.x, 1, Scale, Scale))

RECURSIVE FSum(_, _)
\* sum of vec[0], ..., vec[cnt - 1]
FSum(vec, cnt) == IF cnt <= 0 THEN Num(0) ELSE FAdd(FSum(vec, cnt - 1), vec[cnt - 1])

\* ndarray.mean() of a vector of cnt elements; nan for an empty vector
Mean(vec, cnt) == FDivInt(FSum(vec, cnt), cnt)

\* "{:.2f}".format(a): the number in cents, ties to even
Fmt2(a) ==
    IF a.k # "num" THEN a
    ELSE LET q == (Abs(a.x) * 100) \div Scale
             rem == (Abs(a.x) * 100) % Scale
             up == 2 * rem > Scale \/ (2 * rem = Scale /\ q % 2 = 1)
         IN  Num(Sign(a.x) * (IF up THEN q + 1 ELSE q))

\* int(x): truncation toward zero
IntOf(x) == Sign(x) * (Abs(x) \div Scale)

\* --------------------------------------------------------------- settings
\* Rows r, K, So, Vo, sigma, theta, kappa of settings.csv.
Scenarios ==
    { [r |-> Dec(32), K |-> Dec(2000), So |-> Dec(2000), Vo |-> Dec(10),
       sigma |-> Dec(610), theta |-> Dec(19), kappa |-> Dec(6210)],
      [r |-> Dec(32), K |-> Dec(2000), So |-> Dec(2000), Vo |-> Dec(10),
       sigma |-> 0, theta |-> Dec(19), kappa |-> 0],
      [r |-> 0, K |-> Dec(2000), So |-> Dec(2000), Vo |-> Dec(40),
       sigma |-> 0, theta |-> Dec(500), kappa |-> 0],
      [r |-> Dec(32), K |-> Dec(1900), So |-> Dec(2000), Vo |-> 0,
       sigma |-> Dec(610), theta |-> Dec(19), kappa |-> Dec(6210)],
      [r |-> Dec(32), K |-> Dec(2000), So |-> Dec(2000), Vo |-> -Dec(10),
       sigma |-> Dec(610), theta |-> Dec(19), kappa |-> Dec(6210)] }

\* Row T of settings.csv.
Horizons == {-Scale, 0, Scale}

\* Rows n_rho, rho_i, rho_probability_i of settings.csv.
Mixtures ==
    { [n_rho |-> 2 * Scale, rho |-> (0 :> -Dec(500) @@ 1 :> -Dec(900)),
       rho_probability |-> (0 :> Scale \div 4 @@ 1 :> Scale - Scale \div 4)],
      [n_rho |-> Scale, rho |-> (0 :> 0), rho_probability |-> (0 :> Scale)],
      [n_rho |-> 2 * Scale, rho |-> (0 :> -Scale @@ 1 :> Dec(700)),
       rho_probability |-> (0 :> Scale @@ 1 :> 0)],
      [n_rho |-> 2 * Scale, rho |-> (0 :> -Dec(500) @@ 1 :> -Dec(900)),
       rho_probability |-> (0 :> Scale \div 4 @@ 1 :> Scale \div 2)],
      [n_rho |-> 2 * Scale, rho |-> (0 :> -Dec(500) @@ 1 :> -Dec(900)),
       rho_probability |-> (0 :> Scale + Scale \div 4 @@ 1 :> -(Scale \div 4))],
      [n_rho |-> 0, rho |-> <<>>, rho_probability |-> <<>>] }

\* Rows m and n of settings.csv: whole numbers, and one value with a fraction.
PathCounts == {-Scale, 0, Scale + Scale \div 2} \cup {j * Scale : j \in 1..MaxPaths}
StepCounts == {-Scale, 0, Scale \div 2} \cup {j * Scale : j \in 1..MaxSteps}
Shapes == {sh \in PathCounts \X StepCounts : IntOf(sh[1]) * IntOf(sh[2]) <= MaxCells}

SettingsTable ==
    { sc @@ [T |-> hz] @@ mx @@ [m |-> sh[1], n |-> sh[2]] :
        sc \in Scenarios, hz \in Horizons, mx \in Mixtures, sh \in Shapes }

\* Values np.random.normal returns for one cell.
NormalDraws == {-Scale, 0}

\* ------------------------------------------------------------------ state
VARIABLES settings, pc, dt, dw_v, dw_i, rho, dw_s, s, v, t, stdout, result, raised

vars == <<settings, pc, dt, dw_v, dw_i, rho, dw_s, s, v, t, stdout, result, raised>>

\* the locals read from settings
r == Num(settings.r)
k == Num(settings.K)
s_o == Num(settings.So)
t_max == Num(settings.T)
v_o == Num(settings.Vo)
sigma == Num(settings.sigma)
theta == Num(settings.theta)
kappa == Num(settings.kappa)
n_rho == IntOf(settings.n_rho)
rho_choice == [i \in 0..(n_rho - 1) |-> Num(settings.rho[i])]
rho_probability == [i \in 0..(n_rho - 1) |-> Num(settings.rho_probability[i])]
m == IntOf(settings.m)
n == IntOf(settings.n)

Paths == 0..(m - 1)

Init ==
    /\ settings \in SettingsTable
    /\ pc = "dt"
    /\ dt = Uninit
    /\ dw_v = <<>>
    /\ dw_i = <<>>
    /\ rho = <<>>
    /\ dw_s = <<>>
    /\ s = <<>>
    /\ v = <<>>
    /\ t = 0
    /\ stdout = <<>>
    /\ result = [returned |-> FALSE, value |-> <<>>]
    /\ raised = ""

Raise(exc) ==
    /\ pc' = "raised"
    /\ raised' = exc

\* dt = t_max / n.  A zero n raises when the settings hold Python floats and
\* gives inf or nan when they hold numpy floats.
ComputeDt ==
    /\ pc = "dt"
    /\ \/ /\ dt' = FDivInt(t_max, n)
          /\ pc' = "dw_v"
          /\ UNCHANGED raised
       \/ /\ n = 0
          /\ Raise("ZeroDivisionError")
          /\ UNCHANGED dt
    /\ UNCHANGED <<settings, dw_v, dw_i, rho, dw_s, s, v, t, stdout, result>>

\* np.random.normal(size=(m, n)) * np.sqrt(dt)
NormalTimesSqrtDt(z) == [i \in Paths |-> [j \in 0..(n - 1) |-> FMul(Num(z[i][j]), FSqrt(dt))]]

DrawVarianceShocks ==
    /\ pc = "dw_v"
    /\ IF m < 0 \/ n < 0
       THEN Raise("ValueError") /\ UNCHANGED dw_v
       ELSE /\ \E z \in [Paths -> [0..(n - 1) -> NormalDraws]] : dw_v' = NormalTimesSqrtDt(z)
            /\ pc' = "dw_i"
            /\ UNCHANGED raised
    /\ UNCHANGED <<settings, dt, dw_i, rho, dw_s, s, v, t, stdout, result>>

DrawIndependentShocks ==
    /\ pc = "dw_i"
    /\ \E z \in [Paths -> [0..(n - 1) -> NormalDraws]] : dw_i' = NormalTimesSqrtDt(z)
    /\ pc' = "rho"
    /\ UNCHANGED <<settings, dt, dw_v, rho, dw_s, s, v, t, stdout, result, raised>>

\* The checks np.random.choice(a, size, p) makes before it samples.
ChoiceRejects(a, p) ==
    \/ DOMAIN a = {} /\ m # 0
    \/ \E i \in DOMAIN p : p[i].x < 0
    \/ FSum(p, n_rho) # Num(Scale)

\* Mutant: the arguments swapped, the draw returns entries of p.
ChoiceSupport_FromProbabilities(a, p) == {p[i] : i \in {j \in DOMAIN a : p[j].x > 0}}

\* The values np.random.choice(a, p=p) can return: entries of a of positive probability.
ChoiceSupport(a, p) == {a[i] : i \in {j \in DOMAIN a : p[j].x > 0}}

\* rho = np.random.choice(rho_choice, size=(m, 1), p=rho_probability)
ChooseRho ==
    /\ pc = "rho"
    /\ IF ChoiceRejects(rho_choice, rho_probability)
       THEN Raise("ValueError") /\ UNCHANGED rho
       ELSE /\ rho' \in [Paths -> ChoiceSupport(rho_choice, rho_probability)]
            /\ pc' = "dw_s"
            /\ UNCHANGED raised
    /\ UNCHANGED <<settings, dt, dw_v, dw_i, dw_s, s, v, t, stdout, result>>

\* one cell of rho * dw_v + np.sqrt(1.0 - rho ** 2) * dw_i
CorrelatedShock(rh, dwv, dwi) ==
    FAdd(FMul(rh, dwv), FMul(FSqrt(FSub(Num(Scale), FMul(rh, rh))), dwi))

CorrelateShocks ==
    /\ pc = "dw_s"
    /\ dw_s' = [i \in Paths |-> [j \in 0..(n - 1) |->
                    CorrelatedShock(rho[i], dw_v[i][j], dw_i[i][j])]]
    /\ pc' = "init"
    /\ UNCHANGED <<settings, dt, dw_v, dw_i, rho, s, v, t, stdout, result, raised>>

\* Mutant: s[0, :] = val, the first row instead of the first column.
EmptyWithFirstRow(val) == [i \in Paths |-> [j \in 0..n |-> IF i = 0 THEN val ELSE Uninit]]

\* s = np.empty((m, n + 1)); s[:, 0] = val
EmptyWithFirstColumn(val) == [i \in Paths |-> [j \in 0..n |-> IF j = 0 THEN val ELSE Uninit]]

\* s = np.empty((m, n + 1)); s[:, 0] = s_o; v = np.ones(m) * v_o
Initialise ==
    /\ pc = "init"
    /\ s' = EmptyWithFirstColumn(s_o)
    /\ v' = [i \in Paths |-> FMul(Num(Scale), v_o)]
    /\ t' = 0
    /\ pc' = "loop"
    /\ UNCHANGED <<settings, dt, dw_v, dw_i, rho, dw_s, stdout, result, raised>>

\* Mutant: a lost parenthesis, kappa * theta - v in place of kappa * (theta - v).
DeltaVariance_LostParenthesis(vi, dwv) ==
    FAdd(FMul(FSub(FMul(kappa, theta), vi), dt), FMul(FMul(sigma, FSqrt(vi)), dwv))

\* dv = kappa * (theta - v) * dt + sigma * np.sqrt(v) * dw_v[:, t], one path
DeltaVariance(vi, dwv) ==
    FAdd(FMul(FMul(kappa, FSub(theta, vi)), dt), FMul(FMul(sigma, FSqrt(vi)), dwv))

\* Mutant: the drift without its dt.
DeltaPrice_DriftWithoutDt(vi, si, dws) ==
    FAdd(FMul(r, si), FMul(FMul(FSqrt(vi), si), dws))

\* ds = r * s[:, t] * dt + np.sqrt(v) * s[:, t] * dw_s[:, t], one path
DeltaPrice(vi, si, dws) ==
    FAdd(FMul(FMul(r, si), dt), FMul(FMul(FSqrt(vi), si), dws))

\* Mutant: the update without the clip.
ClipVariance_NoClip(vv, dv) == [i \in Paths |-> FAdd(vv[i], dv[i])]

\* Mutant: a reduction over the paths, np.max(..., 0), in place of the
\* elementwise clip: every path gets the largest clipped variance.
ClipVariance_Reduction(vv, dv) ==
    LET clipped == [i \in Paths |-> ClipMin(FAdd(vv[i], dv[i]), 0)]
    IN  [i \in Paths |->
            CHOOSE c \in {clipped[j] : j \in Paths} :
                \A j \in Paths : IsNum(clipped[j]) /\ IsNum(c) => clipped[j].x <= c.x]

\* v = np.clip(v + dv, a_min=0.0, a_max=None), the whole vector
ClipVariance(vv, dv) == [i \in Paths |-> ClipMin(FAdd(vv[i], dv[i]), 0)]

\* Mutant: an index off by one, s[:, tt] = s[:, tt] + ds.
WriteColumn_SameColumn(ss, tt, ds) ==
    [i \in Paths |-> [ss[i] EXCEPT ![tt] = FAdd(ss[i][tt], ds[i])]]

\* s[:, tt + 1] = s[:, tt] + ds
WriteColumn(ss, tt, ds) == [i \in Paths |-> [ss[i] EXCEPT ![tt + 1] = FAdd(ss[i][tt], ds[i])]]

\* Mutant: the clip moved up, so that ds is computed from the updated variance.
LoopBody_ClipFirst(vv, ss, tt) ==
    LET dv == [i \in Paths |-> DeltaVariance(vv[i], dw_v[i][tt])]
        vn == ClipVariance(vv, dv)
        ds == [i \in Paths |-> DeltaPrice(vn[i], ss[i][tt], dw_s[i][tt])]
    IN  [v |-> vn, s |-> WriteColumn(ss, tt, ds)]

\* One pass of the body of "for t in range(n)": the new v and s.
LoopBody(vv, ss, tt) ==
    LET dv == [i \in Paths |-> DeltaVariance(vv[i], dw_v[i][tt])]
        ds == [i \in Paths |-> DeltaPrice(vv[i], ss[i][tt], dw_s[i][tt])]
    IN  [v |-> ClipVariance(vv, dv), s |-> WriteColumn(ss, tt, ds)]

Step ==
    /\ pc = "loop"
    /\ t < n
    /\ v' = LoopBody(v, s, t).v
    /\ s' = LoopBody(v, s, t).s
    /\ t' = t + 1
    /\ UNCHANGED <<settings, pc, dt, dw_v, dw_i, rho, dw_s, stdout, result, raised>>

\* np.clip(s[:, -1] - k, a_min=0, a_max=None)
Payoffs(ss) == [i \in Paths |-> ClipMin(FSub(ss[i][n], k), 0)]

\* Mutant: a progress line printed ahead of the two price lines.
Report_WithProgressLine(ss) ==
    << [text |-> "Starting the simulation.", value |-> Num(0)],
       [text |-> "Expected payoff is $", value |-> Fmt2(Mean(Payoffs(ss), m))],
       [text |-> "Call option price is $", value |-> Fmt2(Mean(Payoffs(ss), m))] >>

\* the two lines simulate prints
Report(ss) ==
    LET expected_payoff == Mean(Payoffs(ss), m)
        c == FMul(expected_payoff, FExp(FMul(FNeg(r), t_max)))
    IN  << [text |-> "Expected payoff is $", value |-> Fmt2(expected_payoff)],
           [text |-> "Call option price is $", value |-> Fmt2(c)] >>

\* The loop is over: the payoff, the option price and the two print calls.
PrintPrice ==
    /\ pc = "loop"
    /\ t >= n
    /\ stdout' = stdout \o Report(s)
    /\ pc' = "return"
    /\ UNCHANGED <<settings, dt, dw_v, dw_i, rho, dw_s, s, v, t, result, raised>>

\* return s
Return ==
    /\ pc = "return"
    /\ result' = [returned |-> TRUE, value |-> s]
    /\ pc' = "done"
    /\ UNCHANGED <<settings, dt, dw_v, dw_i, rho, dw_s, s, v, t, stdout, raised>>

Next ==
    \/ ComputeDt
    \/ DrawVarianceShocks
    \/ DrawIndependentShocks
    \/ ChooseRho
    \/ CorrelateShocks
    \/ Initialise
    \/ Step
    \/ PrintPrice
    \/ Return

Spec == Init /\ [][Next]_vars

\* ----------------------------------------------------------- vocabulary
\* The configuration errors: probabilities not summing to 1, a negative
\* probability, numSteps <= 0, numPaths <= 0, horizon <= 0.
ConfigError ==
    \/ FSum(rho_probability, n_rho) # Num(Scale)
    \/ \E i \in DOMAIN rho_probability : rho_probability[i].x < 0
    \/ n <= 0
    \/ m <= 0
    \/ settings.T <= 0

\* The parameter record satisfies its data model.
ValidConfig ==
    /\ ~ConfigError
    /\ settings.Vo >= 0
    /\ settings.sigma >= 0
    /\ settings.theta >= 0
    /\ settings.kappa >= 0
    /\ \A i \in DOMAIN rho_choice : Abs(rho_choice[i].x) <= Scale

InLoopOrAfter == pc \in {"loop", "return", "done"}

IsNonNegative(a) == a.k = "num" /\ a.x >= 0

\* C1: for valid parameters the variance of every path is a number >= 0
\* when a time step starts and after every update, so np.sqrt(v) never gets a
\* negative argument.
C1_VarianceNonNegative ==
    (ValidConfig /\ InLoopOrAfter) => \A i \in Paths : IsNonNegative(v[i])

\* a valid run in which the clip acted on the first update of some path
C1_Witness ==
    /\ ValidConfig
    /\ pc = "loop"
    /\ t = 1
    /\ \E i \in Paths :
          /\ FAdd(FMul(Num(Scale), v_o), DeltaVariance(FMul(Num(Scale), v_o), dw_v[i][0])).x < 0
          /\ v[i] = Num(0)

\* C2: a configuration error stops the run before dt is computed and before
\* any shock is drawn; nothing is printed and no matrix is returned.
C2_ConfigErrorAbortsBeforeWork ==
    ConfigError =>
        /\ pc \in {"dt", "raised"}
        /\ dt = Uninit
        /\ dw_v = <<>> /\ dw_i = <<>>
        /\ stdout = <<>>
        /\ ~result.returned

IsWritten(a) == a.k # "uninit"

\* C3: for valid parameters the returned matrix has m rows of n + 1 columns,
\* all of them written: column 0 at initialisation and column t + 1 at step t.
C3_ShapeAndColumnsWritten ==
    ValidConfig =>
        /\ InLoopOrAfter =>
              /\ DOMAIN s = 0..(m - 1)
              /\ \A i \in Paths :
                    /\ DOMAIN s[i] = 0..n
                    /\ \A j \in 0..n : IsWritten(s[i][j]) <=> j <= t
        /\ pc = "done" =>
              /\ result.returned
              /\ t = n
              /\ result.value = s

\* a valid run of several paths and several steps has returned
C3_Witness ==
    /\ ValidConfig
    /\ pc = "done"
    /\ result.returned
    /\ m >= 2
    /\ n >= 2

\* C4: column 0 of the matrix is So for every path from initialisation on,
\* and in the matrix returned.
C4_FirstColumnIsInitialPrice ==
    /\ InLoopOrAfter => \A i \in Paths : s[i][0] = s_o
    /\ result.returned => \A i \in Paths : result.value[i][0] = s_o

\* a run has returned a matrix whose later columns left the initial price
C4_Witness ==
    /\ pc = "done"
    /\ result.returned
    /\ n >= 2
    /\ \E i \in Paths : IsNum(result.value[i][1]) /\ result.value[i][1] # s_o

ZeroShocks ==
    \A i \in Paths : \A j \in 0..(n - 1) : dw_v[i][j] = Num(0) /\ dw_i[i][j] = Num(0)

RECURSIVE FPow(_, _)
FPow(a, e) == IF e = 0 THEN Num(Scale) ELSE FMul(FPow(a, e - 1), a)

\* So * (1 + r * dt) ** j
DriftClosedForm(j) == FMul(s_o, FPow(FAdd(Num(Scale), FMul(r, dt)), j))

\* C6: with all shocks zero every written price obeys
\* price[j + 1] = price[j] + r * price[j] * dt, whatever the variance parameters
\* and the sampled rho; it is So * (1 + r * dt) ** j up to one rounding per step.
C6_ZeroShocksGiveDrift ==
    (ValidConfig /\ InLoopOrAfter /\ ZeroShocks) =>
        \A i \in Paths :
            /\ \A j \in 0..(t - 1) :
                  s[i][j + 1] = FAdd(s[i][j], FMul(FMul(r, s[i][j]), dt))
            /\ \A j \in 0..t :
                  /\ IsNum(s[i][j])
                  /\ Abs(s[i][j].x - DriftClosedForm(j).x) <= j

\* a valid zero-shock run of two steps, with vol of vol, has finished
C6_Witness ==
    /\ ValidConfig
    /\ pc = "done"
    /\ ZeroShocks
    /\ n >= 2
    /\ settings.sigma > 0
    /\ \E i \in Paths : s[i][n].x > s[i][1].x /\ s[i][1].x > s_o.x

\* C7: with sigma = 0, kappa = 0 and Vo >= 0 the variance of every path is Vo
\* at every time step, for any shocks and any theta.
C7_ZeroVolKeepsVariance ==
    (ValidConfig /\ InLoopOrAfter /\ settings.sigma = 0 /\ settings.kappa = 0) =>
        \A i \in Paths : v[i] = v_o

\* a finished two-step run with sigma = kappa = 0 and a nonzero variance shock
C7_Witness ==
    /\ ValidConfig
    /\ pc = "done"
    /\ settings.sigma = 0 /\ settings.kappa = 0
    /\ n >= 2
    /\ \E i \in Paths : \E j \in 0..(n - 1) : dw_v[i][j].x # 0

RhoDrawn == pc \in {"dw_s", "init", "loop", "return", "done"}
ShocksCorrelated == pc \in {"init", "loop", "return", "done"}

\* C8: once drawn, before the loop, every path holds one rho, a member of the
\* configured choice set, and that path's price shock of every time step is
\* rho * dwVariance + sqrt(1 - rho^2) * dwIndependent with that rho.
C8_OneRhoPerPathFromChoiceSet ==
    /\ RhoDrawn =>
          /\ DOMAIN rho = 0..(m - 1)
          /\ \A i \in Paths : \E c \in DOMAIN rho_choice : rho[i] = rho_choice[c]
    /\ ShocksCorrelated =>
          \A i \in Paths : \A j \in 0..(n - 1) :
              dw_s[i][j] = FAdd(FMul(rho[i], dw_v[i][j]),
                                FMul(FSqrt(FSub(Num(Scale), FMul(rho[i], rho[i]))), dw_i[i][j]))

\* a finished run in which two paths drew different rho values
C8_Witness ==
    /\ pc = "done"
    /\ n >= 2
    /\ \E i, j \in Paths : rho[i] # rho[j]
    /\ \E i \in Paths : dw_s[i][0].x # 0 /\ dw_s[i][1].x # 0

\* C9: step t computes both increments from the variance held when the step
\* starts, from price column t and from shock column t; it writes price
\* column t + 1, which was not written before, touches no other column, moves
\* to the clipped variance and to step t + 1.
C9_StepUsesVarianceAtStepStart ==
    [][(pc = "loop" /\ t < n) =>
          /\ t' = t + 1
          /\ pc' = "loop"
          /\ \A i \in Paths :
                /\ v'[i] = ClipMin(FAdd(v[i], DeltaVariance(v[i], dw_v[i][t])), 0)
                /\ s'[i][t + 1] = FAdd(s[i][t], DeltaPrice(v[i], s[i][t], dw_s[i][t]))
                /\ ~IsWritten(s[i][t + 1])
                /\ \A j \in 0..n : j # t + 1 => s'[i][j] = s[i][j]
      ]_vars

\* the last step of a valid run started from a variance that an earlier step
\* had changed, with a nonzero price shock
C9_Witness ==
    /\ ValidConfig
    /\ pc = "loop"
    /\ n >= 2
    /\ t = n - 1
    /\ \E i \in Paths : v[i] # v_o /\ v[i].x > 0 /\ dw_s[i][t].x # 0

RECURSIVE PathAlone(_, _, _, _)
\* The variance and the price row of one path after tt steps, computed from
\* the scalar parameters and that path's own rho and shock rows only.
PathAlone(rh, dwv, dwi, tt) ==
    IF tt = 0
    THEN [v |-> FMul(Num(Scale), v_o),
          s |-> [j \in 0..n |-> IF j = 0 THEN s_o ELSE Uninit]]
    ELSE LET before == PathAlone(rh, dwv, dwi, tt - 1)
             dws == CorrelatedShock(rh, dwv[tt - 1], dwi[tt - 1])
         IN  [v |-> ClipMin(FAdd(before.v, DeltaVariance(before.v, dwv[tt - 1])), 0),
              s |-> [before.s EXCEPT ![tt] =
                        FAdd(before.s[tt - 1], DeltaPrice(before.v, before.s[tt - 1], dws))]]

\* C10: the price row and the variance of path i are a function of the scalar
\* parameters and of path i's own rho and shock rows; so two runs that agree
\* on these agree on row i, whatever the other paths drew.
C10_PathDependsOnOwnInputsOnly ==
    InLoopOrAfter =>
        \A i \in Paths :
            LET alone == PathAlone(rho[i], dw_v[i], dw_i[i], t)
            IN  s[i] = alone.s /\ v[i] = alone.v

\* a finished valid run of two paths whose inputs and price rows differ
C10_Witness ==
    /\ ValidConfig
    /\ pc = "done"
    /\ m >= 2
    /\ n >= 2
    /\ \E i, j \in Paths : dw_v[i] # dw_v[j] /\ rho[i] # rho[j] /\ s[i] # s[j] /\ v[i] # v[j]

====
